---- MODULE Spec2Model ----
(***************************************************************************)
(* Loan simulator (React component App): the amortization engine with      *)
(* extraordinary payments, its baseline calculator and the component state *)
(* that the engine reads and writes.                                       *)
(*                                                                         *)
(* Numbers.  A JavaScript number is modelled as an exact rational <<n, d>> *)
(* in lowest terms with d > 0.  Three values with d = 0 stand for what is  *)
(* not a rational: NaN, the empty text of an input field, and null.        *)
(* Rounding of IEEE doubles is not modelled: every arithmetic operator is  *)
(* exact.  The comparisons against the 0.01 tolerance are the code's.      *)
(***************************************************************************)
EXTENDS Integers, Sequences, FiniteSets, TLC

VARIABLES loanAmount, annualInterestRate, loanTerm, loanTermUnit,
          amortizationSchedule, chartData, totalInterestSaved,
          extraPayments, newExtraPaymentAmount, newExtraPaymentMonth, message,
          now

vars == <<loanAmount, annualInterestRate, loanTerm, loanTermUnit,
          amortizationSchedule, chartData, totalInterestSaved,
          extraPayments, newExtraPaymentAmount, newExtraPaymentMonth, message,
          now>>

(***************************************************************************)
(* Bounds of the model.                                                    *)
(***************************************************************************)
\* longest list of extraordinary payments explored
MaxExtra == 2
\* largest totalMonths for which a schedule is computed
MaxMonths == 12
\* last reading of the clock (Date.now()) explored
MaxClock == 2

(***************************************************************************)
(* Exact rational arithmetic standing for JavaScript number arithmetic.    *)
(* The arithmetic is written as functions, whose arguments are values;     *)
(* Once(v, F) is F(v) with v computed a single time.                       *)
(***************************************************************************)
Once(v, F(_)) == CHOOSE r \in {F(x) : x \in {v}} : TRUE

Rat == Int \X Int

NaN == <<0, 0>>
EmptyText == <<1, 0>>
Null == <<2, 0>>

IsNaN(x) == x[2] = 0

Abs(a) == IF a < 0 THEN -a ELSE a

Gcd[a \in Int, b \in Int] == IF b = 0 THEN a ELSE Gcd[b, a % b]

R[n \in Int, d \in Int] ==
  LET g == Gcd[Abs(n), Abs(d)]
  IN  IF d < 0 THEN <<(-n) \div g, (-d) \div g>> ELSE <<n \div g, d \div g>>

Num(n) == <<n, 1>>
Zero == <<0, 1>>
One == <<1, 1>>

Add[x \in Rat, y \in Rat] ==
  IF IsNaN(x) \/ IsNaN(y) THEN NaN
  ELSE LET g == Gcd[x[2], y[2]]
       IN  R[x[1] * (y[2] \div g) + y[1] * (x[2] \div g), (x[2] \div g) * y[2]]

Neg[x \in Rat] == IF IsNaN(x) THEN NaN ELSE <<-x[1], x[2]>>

Sub[x \in Rat, y \in Rat] == Add[x, Neg[y]]

Mul[x \in Rat, y \in Rat] ==
  IF IsNaN(x) \/ IsNaN(y) THEN NaN
  ELSE IF x[1] = 0 \/ y[1] = 0 THEN Zero
  ELSE LET g1 == Gcd[Abs(x[1]), y[2]]
           g2 == Gcd[Abs(y[1]), x[2]]
       IN  R[(x[1] \div g1) * (y[1] \div g2), (x[2] \div g2) * (y[2] \div g1)]

\* x / y.  0 / 0 is NaN; x / 0 for x # 0 is an infinity, which no division of
\* the loans explored produces (see RateInputs) and which is not represented
Div[x \in Rat, y \in Rat] ==
  IF IsNaN(x) \/ IsNaN(y) \/ y[1] = 0 THEN NaN
  ELSE Mul[x, R[y[2], y[1]]]

\* comparisons of JavaScript numbers: every comparison with NaN is false
Lt[x \in Rat, y \in Rat] == ~IsNaN(x) /\ ~IsNaN(y) /\ Sub[x, y][1] < 0
Le[x \in Rat, y \in Rat] == ~IsNaN(x) /\ ~IsNaN(y) /\ Sub[x, y][1] <= 0
Gt[x \in Rat, y \in Rat] == Lt[y, x]

\* Math.max(0, x)
Max0[x \in Rat] == IF IsNaN(x) THEN NaN ELSE IF x[1] < 0 THEN Zero ELSE x

\* Math.pow(x, -n) for an integer n >= 0
PowInt[x \in Rat, n \in Nat] == IF n = 0 THEN One ELSE Mul[x, PowInt[x, n - 1]]

PowNeg[x \in Rat, n \in Nat] == Div[One, PowInt[x, n]]

\* the tolerance 0.01 of every balance-is-zero comparison
Epsilon == R[1, 100]

(***************************************************************************)
(* Conversions of the raw state values.                                    *)
(***************************************************************************)
\* parseFloat(v): NaN for the empty text, the number otherwise
ParseFloat(v) == IF v[2] = 0 THEN NaN ELSE v

\* parseInt(v): NaN for the empty text, the integer part (towards 0) otherwise
ParseInt(v) ==
  IF v[2] = 0 THEN NaN
  ELSE IF v[1] >= 0 THEN Num(v[1] \div v[2]) ELSE Num(-((-v[1]) \div v[2]))

\* Number(v), the coercion of isNaN(v) and of v / 100: the empty text is 0
ToNumber(v) == IF v = EmptyText THEN Zero ELSE IF v[2] = 0 THEN NaN ELSE v

\* totalMonths as both calculateAmortization and handleAddExtraPayment derive it
TotalMonths(term, unit) ==
  IF unit = "years" THEN Mul[ParseInt(term), Num(12)] ELSE ParseInt(term)

(***************************************************************************)
(* Baseline calculator: total interest of the plan without extra payments. *)
(***************************************************************************)
\* faulty variant: the annuity formula also at rate 0, where it divides 0 by 0
FixedPaymentNoZeroCase(principal, monthlyRate, months) ==
  Mul[principal, Div[monthlyRate, Sub[One, PowNeg[Add[One, monthlyRate], months]]]]

\* the fixed payment of the annuity formula; principal / months at rate 0
FixedPayment(principal, monthlyRate, months) ==
  IF monthlyRate = Zero THEN Div[principal, Num(months)]
  ELSE Mul[principal, Div[monthlyRate, Sub[One, PowNeg[Add[One, monthlyRate], months]]]]

\* one pass of the baseline loop body: <<remainingBalance, totalInterest>>
BaselineMonth(remainingBalance, totalInterest, monthlyRate, monthlyPayment) ==
  LET interestPayment == Mul[remainingBalance, monthlyRate]
      p0 == Sub[monthlyPayment, interestPayment]
      p1 == IF Lt[p0, Zero] THEN Zero ELSE p0
      principalPayment == IF Lt[remainingBalance, p1] THEN remainingBalance ELSE p1
  IN  <<Sub[remainingBalance, principalPayment], Add[totalInterest, interestPayment]>>

\* the baseline loop from month b.i on; b = [i, balance, interest]
RECURSIVE BaselineLoop(_, _)
BaselineLoop(c, b) ==
  IF b.i > c.months \/ Le[b.balance, Epsilon] THEN b.interest
  ELSE Once(BaselineMonth(b.balance, b.interest, c.monthlyRate, c.payment),
            LAMBDA m : BaselineLoop(c, [i |-> b.i + 1, balance |-> m[1], interest |-> m[2]]))

\* faulty variant: the calculator without its input validation
BaselineWithoutValidation(principal, annualRatePercentage, totalMonths) ==
  Once(Div[Div[ToNumber(annualRatePercentage), Num(100)], Num(12)],
       LAMBDA monthlyRate :
         Once([months |-> totalMonths[1], monthlyRate |-> monthlyRate,
               payment |-> FixedPayment(principal, monthlyRate, totalMonths[1])],
              LAMBDA c : BaselineLoop(c, [i |-> 1, balance |-> principal,
                                          interest |-> Zero])))

\* principal: a number; annualRatePercentage: the raw state value; totalMonths: a number
calculateTotalInterestWithoutExtraPayments(principal, annualRatePercentage, totalMonths) ==
  IF IsNaN(principal) \/ Le[principal, Zero] \/ IsNaN(ToNumber(annualRatePercentage))
     \/ Le[totalMonths, Zero]
  THEN Zero
  ELSE Once(Div[Div[ToNumber(annualRatePercentage), Num(100)], Num(12)],
            LAMBDA monthlyRate :
              Once([months |-> totalMonths[1], monthlyRate |-> monthlyRate,
                    payment |-> FixedPayment(principal, monthlyRate, totalMonths[1])],
                   LAMBDA c : BaselineLoop(c, [i |-> 1, balance |-> principal,
                                               interest |-> Zero])))

(***************************************************************************)
(* Amortization engine with extraordinary payments.                        *)
(***************************************************************************)
\* faulty variant: the payments are applied in insertion order, never sorted
Unsorted(eps) == eps

\* [...extraPayments].sort((a, b) => a.month - b.month): a stable sort by month
RECURSIVE InsertByMonth(_, _)
InsertByMonth(sorted, ep) ==
  IF sorted = << >> THEN <<ep>>
  ELSE IF Lt[ep.month, sorted[Len(sorted)].month]
       THEN Append(InsertByMonth(SubSeq(sorted, 1, Len(sorted) - 1), ep), sorted[Len(sorted)])
       ELSE Append(sorted, ep)

RECURSIVE SortedByMonth(_)
SortedByMonth(eps) ==
  IF eps = << >> THEN << >>
  ELSE Once(SortedByMonth(SubSeq(eps, 1, Len(eps) - 1)),
            LAMBDA head : InsertByMonth(head, eps[Len(eps)]))

SortByMonth(eps) == SortedByMonth(eps)

\* faulty variant: the amount is added to the balance
ApplyExtraPaymentAdds(balance, applied, amount) ==
  IF Gt[balance, Epsilon]
  THEN <<Max0[Add[balance, amount]], Add[applied, amount]>>
  ELSE <<balance, applied>>

\* faulty variant: the amount is recorded and the balance is left as it was
ApplyExtraPaymentKeepsBalance(balance, applied, amount) ==
  IF Gt[balance, Epsilon]
  THEN <<balance, Add[applied, amount]>>
  ELSE <<balance, applied>>

\* the body of the extra-payment loop for one payment: <<balance, applied>>
ApplyExtraPayment(balance, applied, amount) ==
  IF Gt[balance, Epsilon]
  THEN <<Max0[Sub[balance, amount]], Add[applied, amount]>>
  ELSE <<balance, applied>>

\* the extra-payment loop of month i; x = [idx, balance, applied]
RECURSIVE ApplyExtraPayments(_, _, _)
ApplyExtraPayments(sorted, x, i) ==
  IF x.idx < Len(sorted) /\ sorted[x.idx + 1].month = Num(i)
  THEN Once(ApplyExtraPayment(x.balance, x.applied, sorted[x.idx + 1].amount),
            LAMBDA a :
              IF Le[a[1], Epsilon]
              THEN [idx |-> x.idx + 1, balance |-> a[1], applied |-> a[2]]
              ELSE ApplyExtraPayments(sorted, [idx |-> x.idx + 1, balance |-> a[1],
                                               applied |-> a[2]], i))
  ELSE x

\* faulty variant: the row records the principal part as the payment
RegularPaymentRecordsPrincipal(balance, monthlyRate, originalMonthlyPayment) ==
  LET interest == Mul[balance, monthlyRate]
      regular == Sub[originalMonthlyPayment, interest]
      final == Gt[regular, Add[balance, Epsilon]]
      principalPaid == IF final THEN balance ELSE regular
  IN  [monthlyPayment |-> principalPaid,
       principalPayment |-> IF Lt[principalPaid, Zero] THEN Zero ELSE principalPaid,
       interestPayment |-> IF Lt[interest, Zero] THEN Zero ELSE interest,
       remainingBalance |-> IF final THEN Zero ELSE Sub[balance, regular]]

\* faulty variant: the final adjustment is never made
RegularPaymentNeverAdjusted(balance, monthlyRate, originalMonthlyPayment) ==
  LET interest == Mul[balance, monthlyRate]
      regular == Sub[originalMonthlyPayment, interest]
  IN  [monthlyPayment |-> originalMonthlyPayment,
       principalPayment |-> IF Lt[regular, Zero] THEN Zero ELSE regular,
       interestPayment |-> IF Lt[interest, Zero] THEN Zero ELSE interest,
       remainingBalance |-> Sub[balance, regular]]

\* the regular payment of a month entered with a balance above the tolerance
RegularPayment(balance, monthlyRate, originalMonthlyPayment) ==
  LET interest == Mul[balance, monthlyRate]
      regular == Sub[originalMonthlyPayment, interest]
      final == Gt[regular, Add[balance, Epsilon]]
      principalPaid == IF final THEN balance ELSE regular
  IN  [monthlyPayment |-> IF final THEN Add[principalPaid, interest]
                          ELSE originalMonthlyPayment,
       principalPayment |-> IF Lt[principalPaid, Zero] THEN Zero ELSE principalPaid,
       interestPayment |-> IF Lt[interest, Zero] THEN Zero ELSE interest,
       remainingBalance |-> IF final THEN Zero ELSE Sub[balance, regular]]

\* the payments of a month, after the month's extra payments were applied
MonthPayment(balance, monthlyRate, originalMonthlyPayment) ==
  IF Le[balance, Epsilon]
  THEN [monthlyPayment |-> Zero, principalPayment |-> Zero,
        interestPayment |-> Zero, remainingBalance |-> balance]
  ELSE RegularPayment(balance, monthlyRate, originalMonthlyPayment)

\* the value recorded as extraPaymentApplied in a schedule row
RecordedExtra(applied) == IF Gt[applied, Zero] THEN applied ELSE Null

\* faulty variant: the rows are numbered from 0
ScheduleRowFromZero(i, pay, applied) ==
  [month |-> i - 1,
   monthlyPayment |-> pay.monthlyPayment,
   principalPayment |-> pay.principalPayment,
   interestPayment |-> pay.interestPayment,
   remainingBalance |-> pay.remainingBalance,
   extraPaymentApplied |-> RecordedExtra(applied)]

\* faulty variant: the row does not record the interest of the month
ScheduleRowOmitsInterest(i, pay, applied) ==
  [month |-> i,
   monthlyPayment |-> pay.monthlyPayment,
   principalPayment |-> pay.principalPayment,
   interestPayment |-> Zero,
   remainingBalance |-> pay.remainingBalance,
   extraPaymentApplied |-> RecordedExtra(applied)]

ScheduleRow(i, pay, applied) ==
  [month |-> i,
   monthlyPayment |-> pay.monthlyPayment,
   principalPayment |-> pay.principalPayment,
   interestPayment |-> pay.interestPayment,
   remainingBalance |-> pay.remainingBalance,
   extraPaymentApplied |-> RecordedExtra(applied)]

ChartRow(i, pay, applied) ==
  [month |-> i,
   capital |-> pay.principalPayment,
   interes |-> pay.interestPayment,
   abono |-> IF Gt[applied, Zero] THEN applied ELSE Zero,
   saldo |-> pay.remainingBalance]

\* faulty variant: the loop is cut one month short of the term
LoopCapBelowTerm(months) == months - 1

\* the loop bound of the engine: i <= initialTotalMonths * 2 + 1
LoopCap(months) == months * 2 + 1

\* the body of the month loop for month st.i; c holds the loan's constants and
\* st = [i, balance, idx, schedule, chart, interest] the loop's variables
EngineMonth(c, st) ==
  Once(ApplyExtraPayments(c.sorted, [idx |-> st.idx, balance |-> st.balance,
                                     applied |-> Zero], st.i),
       LAMBDA x :
         Once(MonthPayment(x.balance, c.monthlyRate, c.payment),
              LAMBDA pay :
                [i |-> st.i,
                 balance |-> pay.remainingBalance,
                 idx |-> x.idx,
                 schedule |-> Append(st.schedule, ScheduleRow(st.i, pay, x.applied)),
                 chart |-> Append(st.chart, ChartRow(st.i, pay, x.applied)),
                 interest |-> Add[st.interest, pay.interestPayment]]))

\* the month loop: for (i = 1; i <= cap && balance > 0.01; i++) { ...; break when paid }
RECURSIVE EngineLoop(_, _)
EngineLoop(c, st) ==
  IF ~(st.i <= LoopCap(c.months) /\ Gt[st.balance, Epsilon]) THEN st
  ELSE Once(EngineMonth(c, st),
            LAMBDA n : IF Le[n.balance, Epsilon] THEN n
                       ELSE EngineLoop(c, [n EXCEPT !.i = n.i + 1]))

\* faulty variant: the validation without isNaN(annualRate)
InvalidLoanIgnoresRate(principal, annualRate, initialTotalMonths) ==
  \/ IsNaN(principal) \/ IsNaN(initialTotalMonths)
  \/ Le[principal, Zero] \/ Le[initialTotalMonths, Zero]

\* the input validation of calculateAmortization
InvalidLoan(principal, annualRate, initialTotalMonths) ==
  \/ IsNaN(principal) \/ IsNaN(annualRate) \/ IsNaN(initialTotalMonths)
  \/ Le[principal, Zero] \/ Le[initialTotalMonths, Zero]

\* what calculateAmortization stores: [schedule, chart, saved]
calculateAmortization(amount, rate, term, unit, eps) ==
  LET principal == ParseFloat(amount)
      annualRate == Div[ParseFloat(rate), Num(100)]
      initialTotalMonths == TotalMonths(term, unit)
      monthlyRate == Div[annualRate, Num(12)]
  IN  IF InvalidLoan(principal, annualRate, initialTotalMonths)
      THEN [schedule |-> << >>, chart |-> << >>, saved |-> Zero]
      ELSE Once([months |-> initialTotalMonths[1],
                 monthlyRate |-> monthlyRate,
                 payment |-> FixedPayment(principal, monthlyRate, initialTotalMonths[1]),
                 baselineTotalInterest |->
                   calculateTotalInterestWithoutExtraPayments(principal, rate,
                                                              initialTotalMonths),
                 sorted |-> SortByMonth(eps)],
                LAMBDA c :
                  Once(EngineLoop(c, [i |-> 1, balance |-> principal, idx |-> 0,
                                      schedule |-> << >>, chart |-> << >>,
                                      interest |-> Zero]),
                       LAMBDA run :
                         [schedule |-> run.schedule, chart |-> run.chart,
                          saved |-> Sub[c.baselineTotalInterest, run.interest]]))

(***************************************************************************)
(* The component state and its handlers.                                   *)
(***************************************************************************)
\* values the loan amount field can hold: setLoanAmount(parseFloat(clean) or 0)
LoanAmountInputs == {NaN, Zero, R[3, 200], Num(2), Num(12)}
\* values of the rate field (the text of a number input; empty when not a number)
RateInputs == {EmptyText, Num(-3600), Zero, Num(1200)}
\* values of the term field
TermInputs == {EmptyText, Zero, One, Num(2), Num(3), R[5, 2]}
TermUnits == {"months", "years"}
\* amounts and months of the extraordinary payments explored
ExtraAmounts == {R[1, 200], One, Num(3)}
ExtraMonths == {One, Num(2)}

\* the model computes schedules of at most MaxMonths months
WithinBound(term, unit) ==
  LET n == TotalMonths(term, unit) IN IsNaN(n) \/ n[1] <= MaxMonths

\* lists of stored payments { id, amount, month } with ids in creation order
ExtraPaymentLists ==
  UNION {{[k \in 1..n |-> [id |-> k, amount |-> f[k][1], month |-> f[k][2]]] :
            f \in [1..n -> ExtraAmounts \X ExtraMonths]} : n \in 0..MaxExtra}

\* faulty variant: the effect does not run and the stored result stays
RecalculatedKeepsResult(amount, rate, term, unit, eps) ==
  UNCHANGED <<amortizationSchedule, chartData, totalInterestSaved>>

\* the useEffect on [loanAmount, annualInterestRate, loanTerm, loanTermUnit,
\* extraPayments]: calculateAmortization() on the new state
Recalculated(amount, rate, term, unit, eps) ==
  \E c \in {calculateAmortization(amount, rate, term, unit, eps)} :
    /\ amortizationSchedule' = c.schedule
    /\ chartData' = c.chart
    /\ totalInterestSaved' = c.saved

Init ==
  /\ loanAmount \in LoanAmountInputs
  /\ annualInterestRate \in RateInputs
  /\ loanTerm \in TermInputs
  /\ loanTermUnit \in TermUnits
  /\ WithinBound(loanTerm, loanTermUnit)
  /\ extraPayments \in ExtraPaymentLists
  /\ newExtraPaymentAmount = Zero
  /\ newExtraPaymentMonth = EmptyText
  /\ message = ""
  /\ now = 1
  /\ \E c \in {calculateAmortization(loanAmount, annualInterestRate, loanTerm,
                                     loanTermUnit, extraPayments)} :
       /\ amortizationSchedule = c.schedule
       /\ chartData = c.chart
       /\ totalInterestSaved = c.saved

\* onChange of the loan amount field
setLoanAmount(v) ==
  /\ v # loanAmount
  /\ loanAmount' = v
  /\ Recalculated(v, annualInterestRate, loanTerm, loanTermUnit, extraPayments)
  /\ UNCHANGED <<annualInterestRate, loanTerm, loanTermUnit, extraPayments,
                 newExtraPaymentAmount, newExtraPaymentMonth, message, now>>

\* onChange of the rate field
setAnnualInterestRate(v) ==
  /\ v # annualInterestRate
  /\ annualInterestRate' = v
  /\ Recalculated(loanAmount, v, loanTerm, loanTermUnit, extraPayments)
  /\ UNCHANGED <<loanAmount, loanTerm, loanTermUnit, extraPayments,
                 newExtraPaymentAmount, newExtraPaymentMonth, message, now>>

\* onChange of the term field
setLoanTerm(v) ==
  /\ v # loanTerm
  /\ WithinBound(v, loanTermUnit)
  /\ loanTerm' = v
  /\ Recalculated(loanAmount, annualInterestRate, v, loanTermUnit, extraPayments)
  /\ UNCHANGED <<loanAmount, annualInterestRate, loanTermUnit, extraPayments,
                 newExtraPaymentAmount, newExtraPaymentMonth, message, now>>

\* onChange of the term unit select
setLoanTermUnit(u) ==
  /\ u # loanTermUnit
  /\ WithinBound(loanTerm, u)
  /\ loanTermUnit' = u
  /\ Recalculated(loanAmount, annualInterestRate, loanTerm, u, extraPayments)
  /\ UNCHANGED <<loanAmount, annualInterestRate, loanTerm, extraPayments,
                 newExtraPaymentAmount, newExtraPaymentMonth, message, now>>

\* prev.filter(ep => ep.id !== idToRemove)
RemoveById(eps, idToRemove) == SelectSeq(eps, LAMBDA ep : ep.id # idToRemove)

\* click on the remove button of a listed payment
handleRemoveExtraPayment(idToRemove) ==
  /\ extraPayments' = RemoveById(extraPayments, idToRemove)
  /\ message' = ""
  /\ Recalculated(loanAmount, annualInterestRate, loanTerm, loanTermUnit, extraPayments')
  /\ UNCHANGED <<loanAmount, annualInterestRate, loanTerm, loanTermUnit,
                 newExtraPaymentAmount, newExtraPaymentMonth, now>>

Next ==
  \/ \E v \in LoanAmountInputs : setLoanAmount(v)
  \/ \E v \in RateInputs : setAnnualInterestRate(v)
  \/ \E v \in TermInputs : setLoanTerm(v)
  \/ \E u \in TermUnits : setLoanTermUnit(u)
  \/ \E k \in 1..Len(extraPayments) : handleRemoveExtraPayment(extraPayments[k].id)

Spec == Init /\ [][Next]_vars

(***************************************************************************)
(* The form of the extraordinary payments and the whole component.         *)
(***************************************************************************)
\* the two rejection messages of handleAddExtraPayment; the bound that the
\* second one quotes is not represented
AmountMessage == "Por favor, ingresa un monto valido para el abono extraordinario."
MonthMessage == "Por favor, ingresa un mes valido."

\* isNaN(amount) || amount <= 0
InvalidExtraAmount(amount) == IsNaN(amount) \/ Le[amount, Zero]

\* initialTotalMonths * 2 + 1
ExtraMonthBound(initialTotalMonths) == Add[Mul[initialTotalMonths, Num(2)], One]

\* faulty variant: month 0 passes the validation
InvalidExtraMonthAllowsZero(month, initialTotalMonths) ==
  IsNaN(month) \/ Lt[month, Zero] \/ Gt[month, ExtraMonthBound(initialTotalMonths)]

\* isNaN(month) || month <= 0 || month > initialTotalMonths * 2 + 1
InvalidExtraMonth(month, initialTotalMonths) ==
  IsNaN(month) \/ Le[month, Zero] \/ Gt[month, ExtraMonthBound(initialTotalMonths)]

\* onChange of the amount field of the form
setNewExtraPaymentAmount(v) ==
  /\ v # newExtraPaymentAmount
  /\ newExtraPaymentAmount' = v
  /\ UNCHANGED <<loanAmount, annualInterestRate, loanTerm, loanTermUnit,
                 amortizationSchedule, chartData, totalInterestSaved,
                 extraPayments, newExtraPaymentMonth, message, now>>

\* onChange of the month field of the form
setNewExtraPaymentMonth(v) ==
  /\ v # newExtraPaymentMonth
  /\ newExtraPaymentMonth' = v
  /\ UNCHANGED <<loanAmount, annualInterestRate, loanTerm, loanTermUnit,
                 amortizationSchedule, chartData, totalInterestSaved,
                 extraPayments, newExtraPaymentAmount, message, now>>

\* click on "Agregar Abono"; at most MaxExtra payments are stored in the model
handleAddExtraPayment ==
  LET amount == newExtraPaymentAmount
      month == ParseInt(newExtraPaymentMonth)
      initialTotalMonths == TotalMonths(loanTerm, loanTermUnit)
  IN  IF InvalidExtraAmount(amount)
      THEN /\ message' = AmountMessage
           /\ UNCHANGED <<loanAmount, annualInterestRate, loanTerm, loanTermUnit,
                          amortizationSchedule, chartData, totalInterestSaved,
                          extraPayments, newExtraPaymentAmount, newExtraPaymentMonth,
                          now>>
      ELSE IF InvalidExtraMonth(month, initialTotalMonths)
      THEN /\ message' = MonthMessage
           /\ UNCHANGED <<loanAmount, annualInterestRate, loanTerm, loanTermUnit,
                          amortizationSchedule, chartData, totalInterestSaved,
                          extraPayments, newExtraPaymentAmount, newExtraPaymentMonth,
                          now>>
      ELSE /\ Len(extraPayments) < MaxExtra
           /\ extraPayments' = Append(extraPayments,
                                      [id |-> now, amount |-> amount, month |-> month])
           /\ newExtraPaymentAmount' = Zero
           /\ newExtraPaymentMonth' = EmptyText
           /\ message' = ""
           /\ Recalculated(loanAmount, annualInterestRate, loanTerm, loanTermUnit,
                           extraPayments')
           /\ UNCHANGED <<loanAmount, annualInterestRate, loanTerm, loanTermUnit, now>>

\* click on the close mark of the message
closeMessage ==
  /\ message # ""
  /\ message' = ""
  /\ UNCHANGED <<loanAmount, annualInterestRate, loanTerm, loanTermUnit,
                 amortizationSchedule, chartData, totalInterestSaved,
                 extraPayments, newExtraPaymentAmount, newExtraPaymentMonth, now>>

\* the clock read by Date.now() advances between two events, or does not
Tick ==
  /\ now < MaxClock
  /\ now' = now + 1
  /\ UNCHANGED <<loanAmount, annualInterestRate, loanTerm, loanTermUnit,
                 amortizationSchedule, chartData, totalInterestSaved,
                 extraPayments, newExtraPaymentAmount, newExtraPaymentMonth, message>>

\* the values typed in the component as a whole
AppLoanAmounts == {Zero, Num(2)}
AppRates == {Zero, Num(1200)}
AppTerms == {EmptyText, One, Num(2)}
PendingAmounts == {NaN, Zero, One, Num(3)}
PendingMonths == {EmptyText, Zero, One, Num(4)}

\* the component after construction and its first effect, with a small loan
\* in the place of the initial 100000 at 5% over 5 years
AppInit ==
  /\ loanAmount = Num(2)
  /\ annualInterestRate = Num(1200)
  /\ loanTerm = Num(2)
  /\ loanTermUnit = "months"
  /\ extraPayments = << >>
  /\ newExtraPaymentAmount = Zero
  /\ newExtraPaymentMonth = EmptyText
  /\ message = ""
  /\ now = 1
  /\ \E c \in {calculateAmortization(loanAmount, annualInterestRate, loanTerm,
                                     loanTermUnit, extraPayments)} :
       /\ amortizationSchedule = c.schedule
       /\ chartData = c.chart
       /\ totalInterestSaved = c.saved

AppNext ==
  \/ \E v \in AppLoanAmounts : setLoanAmount(v)
  \/ \E v \in AppRates : setAnnualInterestRate(v)
  \/ \E v \in AppTerms : setLoanTerm(v)
  \/ \E u \in TermUnits : setLoanTermUnit(u)
  \/ \E v \in PendingAmounts : setNewExtraPaymentAmount(v)
  \/ \E v \in PendingMonths : setNewExtraPaymentMonth(v)
  \/ handleAddExtraPayment
  \/ \E k \in 1..Len(extraPayments) : handleRemoveExtraPayment(extraPayments[k].id)
  \/ closeMessage
  \/ Tick

AppSpec == AppInit /\ [][AppNext]_vars

(***************************************************************************)
(* Vocabulary of the properties.                                           *)
(***************************************************************************)
Principal == ParseFloat(loanAmount)
AnnualRate == Div[ParseFloat(annualInterestRate), Num(100)]
MonthlyRate == Div[AnnualRate, Num(12)]
Months == TotalMonths(loanTerm, loanTermUnit)
ValidLoan == ~InvalidLoan(Principal, AnnualRate, Months)
OriginalMonthlyPayment == FixedPayment(Principal, MonthlyRate, Months[1])

\* the schedule the engine computes for the current loan and the payment list eps
ScheduleOf(eps) ==
  calculateAmortization(loanAmount, annualInterestRate, loanTerm, loanTermUnit, eps).schedule

\* the orders in which the stored payments could have been inserted
Orderings(eps) ==
  {[k \in 1..Len(eps) |-> eps[p[k]]] : p \in Permutations(1..Len(eps))}

\* the balance with which month j of the stored schedule is entered
BalanceBefore(j) ==
  IF j = 1 THEN Principal ELSE amortizationSchedule[j - 1].remainingBalance

LastRow == amortizationSchedule[Len(amortizationSchedule)]

RECURSIVE SumOver(_, _)
SumOver(seq, field) ==
  IF seq = << >> THEN Zero
  ELSE Add[SumOver(SubSeq(seq, 1, Len(seq) - 1), field), seq[Len(seq)][field]]

(***************************************************************************)
(* C1: the schedule does not depend on the order in which the payments of  *)
(* the stored set were inserted: every ordering of the same payments gives *)
(* the stored schedule, field by field.                                    *)
(***************************************************************************)
C1_OrderIndependent ==
  \A q \in Orderings(extraPayments) : ScheduleOf(q) = amortizationSchedule

(***************************************************************************)
(* C2: a payment whose amount exceeds the balance with which its month is  *)
(* entered ends the schedule at that month with remainingBalance = 0, and  *)
(* the row records as extraPaymentApplied the balance actually paid off.   *)
(***************************************************************************)
C2_ExtraCappedAtBalance ==
  \A k \in 1..Len(extraPayments) :
    LET ep == extraPayments[k]
        j == ep.month[1]
    IN  (j <= Len(amortizationSchedule) /\ Gt[ep.amount, BalanceBefore(j)])
        => /\ j = Len(amortizationSchedule)
           /\ amortizationSchedule[j].remainingBalance = Zero
           /\ amortizationSchedule[j].extraPaymentApplied = BalanceBefore(j)

(***************************************************************************)
(* C3: for every valid loan (principal > 0, totalMonths > 0, numeric rate) *)
(* the last row of the schedule has remainingBalance exactly 0.  Stated    *)
(* for the loans at a rate >= 0 among them: the claim fails already there. *)
(***************************************************************************)
C3_LastBalanceZero ==
  (ValidLoan /\ Le[Zero, AnnualRate] /\ amortizationSchedule # << >>)
  => LastRow.remainingBalance = Zero

(***************************************************************************)
(* C4: for every valid loan, remainingBalance never increases from one row *)
(* of the schedule to the next.                                            *)
(***************************************************************************)
NonIncreasing ==
  \A j \in 2..Len(amortizationSchedule) :
    Le[amortizationSchedule[j].remainingBalance, amortizationSchedule[j - 1].remainingBalance]

C4_NonIncreasingAnyRate == ValidLoan => NonIncreasing

\* C4, amended: for every valid loan with an annual rate >= 0, remainingBalance
\* never increases from one row of the schedule to the next.
C4_NonIncreasing == (ValidLoan /\ Le[Zero, AnnualRate]) => NonIncreasing

\* a loan at a positive rate with a payment applied, whose schedule has
\* three rows or more
C4_Witness ==
  /\ ValidLoan /\ Gt[AnnualRate, Zero]
  /\ Len(amortizationSchedule) >= 3
  /\ \E j \in 1..Len(amortizationSchedule) :
       amortizationSchedule[j].extraPaymentApplied # Null
  /\ Lt[amortizationSchedule[3].remainingBalance, amortizationSchedule[2].remainingBalance]

(***************************************************************************)
(* C5: no row of the schedule records a negative remainingBalance.  Stated *)
(* for the loans at a rate >= 0: the claim fails already there.            *)
(***************************************************************************)
C5_NoNegativeBalance ==
  Le[Zero, AnnualRate]
  => \A j \in 1..Len(amortizationSchedule) :
       Le[Zero, amortizationSchedule[j].remainingBalance]

(***************************************************************************)
(* C6: at annual rate 0, with no extra payments and a principal divisible  *)
(* by totalMonths, the schedule has exactly totalMonths rows, every row    *)
(* has interestPayment = 0 and principalPayment = principal / totalMonths, *)
(* and the final remainingBalance is 0.                                    *)
(***************************************************************************)
ZeroRatePlainLoan ==
  /\ ValidLoan /\ AnnualRate = Zero /\ extraPayments = << >>
  /\ Principal[2] = 1 /\ Principal[1] % Months[1] = 0

C6_ZeroRate ==
  ZeroRatePlainLoan
  => /\ Len(amortizationSchedule) = Months[1]
     /\ \A j \in 1..Len(amortizationSchedule) :
          /\ amortizationSchedule[j].interestPayment = Zero
          /\ amortizationSchedule[j].principalPayment = Num(Principal[1] \div Months[1])
     /\ LastRow.remainingBalance = Zero

\* 12 over 12 months at rate 0: twelve rows
C6_Witness ==
  /\ ZeroRatePlainLoan /\ Principal = Num(12) /\ Months = Num(12)
  /\ Len(amortizationSchedule) = 12
  /\ amortizationSchedule[12].principalPayment = One

(***************************************************************************)
(* C7: for a valid loan at a positive rate with no extra payments, the     *)
(* schedule has exactly totalMonths rows and the principalPayment of its   *)
(* rows add up to the principal within 0.01.                               *)
(***************************************************************************)
PositiveRatePlainLoan == ValidLoan /\ Gt[AnnualRate, Zero] /\ extraPayments = << >>

FullLengthAndPrincipalRepaid ==
  /\ Len(amortizationSchedule) = Months[1]
  /\ LET d == Sub[SumOver(amortizationSchedule, "principalPayment"), Principal]
     IN  Le[d, Epsilon] /\ Le[Neg[Epsilon], d]

PaymentAboveTolerance ==
  Gt[OriginalMonthlyPayment, Mul[Epsilon, Add[One, MonthlyRate]]]

OneExtraApplied ==
  /\ ValidLoan /\ Gt[AnnualRate, Zero] /\ Len(extraPayments) = 1
  /\ LET j == extraPayments[1].month[1]
     IN  /\ j <= Len(amortizationSchedule)
         /\ amortizationSchedule[j].extraPaymentApplied # Null

PlainLength == Len(ScheduleOf(<< >>))

LargeEarlyExtra ==
  \E k \in 1..Len(extraPayments) :
    /\ Le[OriginalMonthlyPayment, extraPayments[k].amount]
    /\ extraPayments[k].month[1] < PlainLength

ShorterWithExtras ==
  /\ Len(amortizationSchedule) <= PlainLength
  /\ LargeEarlyExtra => Len(amortizationSchedule) < PlainLength

C9_ShorterAnyRate == ValidLoan => ShorterWithExtras

\* C9, amended: for a valid loan with an annual rate >= 0, the schedule with extra
\* payments is never longer than the one without them, and it is strictly shorter
\* when an extra payment of at least one regular monthly payment is scheduled
\* before the last month.
C9_Shorter == (ValidLoan /\ Le[Zero, AnnualRate]) => ShorterWithExtras

\* a positive-rate loan of twelve months cut short by a payment in month 2
C9_Witness ==
  /\ ValidLoan /\ Gt[AnnualRate, Zero] /\ LargeEarlyExtra
  /\ PlainLength = 12
  /\ Len(amortizationSchedule) < 12
  /\ Len(amortizationSchedule) >= 2
  /\ amortizationSchedule[2].extraPaymentApplied # Null

(***************************************************************************)
(* C10: with a principal that is NaN or <= 0, a rate that is NaN, or a     *)
(* totalMonths that is NaN or <= 0, the recomputation leaves the schedule  *)
(* empty, the chart series empty and totalInterestSaved = 0.               *)
(***************************************************************************)
RejectedInputs ==
  \/ IsNaN(Principal) \/ Le[Principal, Zero]
  \/ IsNaN(AnnualRate)
  \/ IsNaN(Months) \/ Le[Months, Zero]

C10_InvalidClears ==
  RejectedInputs
  => /\ amortizationSchedule = << >>
     /\ chartData = << >>
     /\ totalInterestSaved = Zero

\* an empty rate field with a positive principal, a positive term and stored
\* payments: nothing is shown
C10_Witness ==
  /\ annualInterestRate = EmptyText
  /\ Gt[Principal, Zero] /\ Gt[Months, Zero]
  /\ Len(extraPayments) = 2
  /\ amortizationSchedule = << >> /\ chartData = << >> /\ totalInterestSaved = Zero

(***************************************************************************)
(* The copy of the engine in src/App.jsx.  It is the engine above line by  *)
(* line, except that it does not declare actualMonthlyPaymentRecorded,     *)
(* which both branches of the loop body assign.  The file is an ES module, *)
(* hence strict code: the assignment raises ReferenceError.                *)
(***************************************************************************)
EngineFiles == {"part_001", "App.jsx"}

\* let actualMonthlyPaymentRecorded; in the loop body
DeclaresRecordedPayment(file) == file = "part_001"

\* the engine of the file raises on these inputs: the loan passes the
\* validation, the loop body is entered and reaches one of the assignments
RaisesReferenceError(file, amount, rate, term, unit) ==
  /\ ~DeclaresRecordedPayment(file)
  /\ ~InvalidLoan(ParseFloat(amount), Div[ParseFloat(rate), Num(100)],
                  TotalMonths(term, unit))
  /\ 1 <= LoopCap(TotalMonths(term, unit)[1])
  /\ Gt[ParseFloat(amount), Epsilon]

(***************************************************************************)
(* C11: the amortization engine never raises an exception: for every       *)
(* input, valid or invalid, calculateAmortization runs to completion.      *)
(***************************************************************************)
C11_NeverRaises ==
  \A file \in EngineFiles :
    ~RaisesReferenceError(file, loanAmount, annualInterestRate, loanTerm, loanTermUnit)

(***************************************************************************)
(* C12: calculateTotalInterestWithoutExtraPayments returns 0 whenever the  *)
(* principal is NaN or <= 0, the rate is not a number, or totalMonths is   *)
(* NaN or <= 0.  (The calculator is an operator of its three arguments: it *)
(* reads and writes no state.)                                             *)
(***************************************************************************)
BaselineRejectedInputs ==
  \/ IsNaN(Principal) \/ Le[Principal, Zero]
  \/ annualInterestRate[2] = 0
  \/ IsNaN(Months) \/ Le[Months, Zero]

BaselineInterest ==
  calculateTotalInterestWithoutExtraPayments(Principal, annualInterestRate, Months)

C12_BaselineZero == BaselineRejectedInputs => BaselineInterest = Zero

\* an empty term, which the test totalMonths <= 0 lets through, with a positive
\* principal at a positive rate: the loop runs no month and the result is 0
C12_Witness ==
  /\ IsNaN(Months) /\ Gt[Principal, Zero] /\ Gt[AnnualRate, Zero]
  /\ BaselineInterest = Zero

(***************************************************************************)
(* Vocabulary of the form.                                                 *)
(***************************************************************************)
PendingMonth == ParseInt(newExtraPaymentMonth)

LoanParameters == <<loanAmount, annualInterestRate, loanTerm, loanTermUnit>>

\* the sequence without its k-th element
RemoveAt(seq, k) == SubSeq(seq, 1, k - 1) \o SubSeq(seq, k + 1, Len(seq))

(***************************************************************************)
(* C13: when handleAddExtraPayment rejects an input (amount NaN or <= 0,   *)
(* or month NaN, <= 0 or above the bound 2 * totalMonths + 1), it sets a   *)
(* non-empty message and leaves the list of payments, the pending amount   *)
(* and month and the loan parameters unchanged.                            *)
(***************************************************************************)
RejectedExtraPayment ==
  \/ IsNaN(newExtraPaymentAmount) \/ Le[newExtraPaymentAmount, Zero]
  \/ IsNaN(PendingMonth) \/ Le[PendingMonth, Zero]
  \/ Gt[PendingMonth, Add[Mul[Months, Num(2)], One]]

C13_RejectionKeepsState ==
  [][(handleAddExtraPayment /\ RejectedExtraPayment)
       => /\ message' # ""
          /\ UNCHANGED <<extraPayments, newExtraPaymentAmount, newExtraPaymentMonth,
                         LoanParameters>>]_vars

\* a month above the bound was rejected while a payment was stored
C13_Witness ==
  /\ message = MonthMessage
  /\ Gt[newExtraPaymentAmount, Zero]
  /\ Gt[PendingMonth, Add[Mul[Months, Num(2)], One]]
  /\ Len(extraPayments) = 1

(***************************************************************************)
(* C14: handleAddExtraPayment adds a payment only when amount > 0 and      *)
(* 1 <= month <= 2 * totalMonths + 1, with totalMonths derived from the    *)
(* term value and unit at that moment, for every term value, an empty one  *)
(* included.                                                               *)
(***************************************************************************)
C14_AddsOnlyWithinBound ==
  [][Len(extraPayments') > Len(extraPayments)
       => LET added == extraPayments'[Len(extraPayments')]
          IN  /\ Gt[added.amount, Zero]
              /\ Le[One, added.month]
              /\ Le[added.month, Add[Mul[Months, Num(2)], One]]]_vars

(***************************************************************************)
(* C15: in every reachable state the ids of the stored payments are        *)
(* pairwise distinct, also after two additions at one clock reading.       *)
(***************************************************************************)
C15_DistinctIds ==
  \A i, j \in 1..Len(extraPayments) :
    i # j => extraPayments[i].id # extraPayments[j].id

(***************************************************************************)
(* C16: handleRemoveExtraPayment removes exactly the one payment selected  *)
(* and leaves every other stored payment (id, amount, month, relative      *)
(* order) unchanged; between its creation and its removal a payment's      *)
(* amount and month never change.  As a property of every step: the list   *)
(* stays as it is, or gains one payment at its end, or loses exactly one.  *)
(***************************************************************************)
C16_RemovesOnlySelected ==
  [][\/ extraPayments' = extraPayments
     \/ /\ Len(extraPayments') = Len(extraPayments) + 1
        /\ SubSeq(extraPayments', 1, Len(extraPayments)) = extraPayments
     \/ \E k \in 1..Len(extraPayments) :
          extraPayments' = RemoveAt(extraPayments, k)]_vars

(***************************************************************************)
(* C17: after any sequence of input changes (principal, rate, term, unit,  *)
(* add or remove of a payment) and the recomputation each one triggers,    *)
(* the stored schedule is the schedule computed from scratch from the      *)
(* current inputs alone; so are the chart series and the interest saved.   *)
(***************************************************************************)
C17_RecomputedFromScratch ==
  [schedule |-> amortizationSchedule, chart |-> chartData, saved |-> totalInterestSaved]
    = calculateAmortization(loanAmount, annualInterestRate, loanTerm, loanTermUnit,
                            extraPayments)

\* the term was shortened after a payment had been added at a later clock
\* reading than the first, and the payment shows in the stored schedule
C17_Witness ==
  /\ loanTerm = One /\ loanTermUnit = "months"
  /\ Len(extraPayments) = 1 /\ extraPayments[1].id = 2
  /\ amortizationSchedule # << >>
  /\ amortizationSchedule[1].extraPaymentApplied # Null
  /\ C17_RecomputedFromScratch

(***************************************************************************)
(* The basic component (part_000): the engine without extraordinary        *)
(* payments, over the same four loan fields, and its summary.              *)
(***************************************************************************)
\* the body of the loop of the basic engine for month i
BasicMonth(i, balance, monthlyRate, monthlyPayment) ==
  LET interestPayment == Mul[balance, monthlyRate]
      principalPayment == Sub[monthlyPayment, interestPayment]
      remaining == Sub[balance, principalPayment]
  IN  [month |-> i,
       monthlyPayment |-> monthlyPayment,
       principalPayment |-> principalPayment,
       interestPayment |-> interestPayment,
       remainingBalance |-> IF Lt[remaining, Zero] THEN Zero ELSE remaining]

\* for (let i = 1; i <= months; i++): the rows from month i on
RECURSIVE BasicLoop(_, _, _, _, _)
BasicLoop(i, months, balance, monthlyRate, monthlyPayment) ==
  IF i > months THEN << >>
  ELSE Once(BasicMonth(i, balance, monthlyRate, monthlyPayment),
            LAMBDA row : <<row>> \o BasicLoop(i + 1, months, row.remainingBalance,
                                             monthlyRate, monthlyPayment))

\* the schedule that calculateAmortization of the basic component stores
calculateAmortizationBasic(amount, rate, term, unit) ==
  LET principal == ParseFloat(amount)
      annualRate == Div[ParseFloat(rate), Num(100)]
      months == TotalMonths(term, unit)
  IN  IF \/ IsNaN(principal) \/ IsNaN(annualRate) \/ IsNaN(months)
         \/ Le[principal, Zero] \/ Le[months, Zero]
      THEN << >>
      ELSE Once(Div[annualRate, Num(12)],
                LAMBDA monthlyRate :
                  Once(FixedPayment(principal, monthlyRate, months[1]),
                       LAMBDA monthlyPayment :
                         BasicLoop(1, months[1], principal, monthlyRate, monthlyPayment)))

BasicSchedule ==
  calculateAmortizationBasic(loanAmount, annualInterestRate, loanTerm, loanTermUnit)

\* "Numero de pagos" of the basic component: loanTerm * 12 in years, the term
\* field as it is in months
BasicDisplayedPaymentCount ==
  IF loanTermUnit = "years" THEN Mul[ToNumber(loanTerm), Num(12)] ELSE loanTerm

(***************************************************************************)
(* The summary of the component.                                           *)
(***************************************************************************)
\* the nearest integer, halves away from 0
Round(x) ==
  IF x[1] >= 0 THEN Num((2 * x[1] + x[2]) \div (2 * x[2]))
  ELSE Num(-((2 * (-x[1]) + x[2]) \div (2 * x[2])))

\* formatCurrency: the amount shown, in whole pesos; 0 for what is not a number
formatCurrency(value) == IF IsNaN(ParseFloat(value)) THEN Zero ELSE Round(value)

\* faulty variant: the summary reads the last row of the schedule
LastPaymentOrZero(schedule) ==
  IF schedule = << >> THEN Zero
  ELSE IF IsNaN(schedule[Len(schedule)].monthlyPayment)
          \/ schedule[Len(schedule)].monthlyPayment = Zero THEN Zero
  ELSE schedule[Len(schedule)].monthlyPayment

\* amortizationSchedule[0]?.monthlyPayment || 0
FirstPaymentOrZero(schedule) ==
  IF schedule = << >> THEN Zero
  ELSE IF IsNaN(schedule[1].monthlyPayment) \/ schedule[1].monthlyPayment = Zero THEN Zero
  ELSE schedule[1].monthlyPayment

\* "Cuota Mensual"
DisplayedMonthlyPayment == formatCurrency(FirstPaymentOrZero(amortizationSchedule))

\* "Numero de pagos"
DisplayedPaymentCount == Len(amortizationSchedule)

(***************************************************************************)
(* C18: every schedule row has interestPayment >= 0 and principalPayment   *)
(* >= 0, for every accepted input, a negative annual rate included.        *)
(***************************************************************************)
NonNegativePayments(schedule) ==
  \A j \in 1..Len(schedule) :
    /\ Le[Zero, schedule[j].interestPayment]
    /\ Le[Zero, schedule[j].principalPayment]

C18_NonNegativePayments ==
  /\ NonNegativePayments(amortizationSchedule)
  /\ NonNegativePayments(BasicSchedule)

(***************************************************************************)
(* C19: in every state the displayed payment count is the length of the    *)
(* current schedule (0 when it is empty), and the displayed monthly        *)
(* payment is the first row's monthlyPayment, or 0 when the schedule is    *)
(* empty.                                                                  *)
(***************************************************************************)
C19_SummaryOfSchedule ==
  /\ DisplayedPaymentCount = Len(amortizationSchedule)
  /\ DisplayedMonthlyPayment
       = formatCurrency(IF amortizationSchedule = << >> THEN Zero
                        ELSE amortizationSchedule[1].monthlyPayment)
  /\ BasicDisplayedPaymentCount = Num(Len(BasicSchedule))
  /\ formatCurrency(FirstPaymentOrZero(BasicSchedule))
       = formatCurrency(IF BasicSchedule = << >> THEN Zero
                        ELSE BasicSchedule[1].monthlyPayment)

(***************************************************************************)
(* C20: after a recomputation with valid inputs, totalInterestSaved is the *)
(* baseline total interest for the same principal, rate and totalMonths    *)
(* minus the sum of interestPayment over the rows of the stored schedule.  *)
(***************************************************************************)
C20_SavedIsBaselineMinusPaid ==
  ValidLoan
  => totalInterestSaved
       = Sub[BaselineInterest, SumOver(amortizationSchedule, "interestPayment")]

\* a loan at a positive rate with a payment applied: interest is paid and saved
C20_Witness ==
  /\ ValidLoan /\ Gt[AnnualRate, Zero]
  /\ Len(amortizationSchedule) >= 2
  /\ amortizationSchedule[1].extraPaymentApplied # Null
  /\ Gt[SumOver(amortizationSchedule, "interestPayment"), Zero]
  /\ Gt[totalInterestSaved, Zero]
  /\ C20_SavedIsBaselineMinusPaid

(***************************************************************************)
(* Vocabulary of the rows.                                                 *)
(***************************************************************************)
\* extraPaymentApplied of row j, null read as 0
AppliedOrZero(j) ==
  IF amortizationSchedule[j].extraPaymentApplied = Null THEN Zero
  ELSE amortizationSchedule[j].extraPaymentApplied

\* the balance of month j once its extra payments were subtracted, floored at 0
BalanceAfterExtras(j) == Max0[Sub[BalanceBefore(j), AppliedOrZero(j)]]

\* the regular principal of month j: the original payment minus the interest
RegularPrincipal(j) ==
  Sub[OriginalMonthlyPayment, Mul[BalanceAfterExtras(j), MonthlyRate]]

(***************************************************************************)
(* C21: the engine loop terminates and the rows of the schedule are        *)
(* numbered 1, 2, ..., k with no gaps, where k <= 2 * totalMonths + 1, for *)
(* every valid loan and every extra-payment set.                           *)
(***************************************************************************)
C21_RowsNumbered ==
  ValidLoan
  => /\ \A j \in 1..Len(amortizationSchedule) : amortizationSchedule[j].month = j
     /\ Len(amortizationSchedule) <= 2 * Months[1] + 1

\* a loan that is not paid when the loop reaches its cap
C21_Witness ==
  /\ ValidLoan /\ Months[1] >= 2
  /\ Len(amortizationSchedule) = 2 * Months[1] + 1
  /\ Gt[LastRow.remainingBalance, Epsilon]
  /\ LastRow.month = Len(amortizationSchedule)

(***************************************************************************)
(* C22: when the extra payments of month i bring the balance to <= 0.01,   *)
(* the row of month i records interestPayment = 0, principalPayment = 0,   *)
(* monthlyPayment = 0 and remainingBalance = 0, and it is the last row.    *)
(* Stated for the loans at a rate >= 0: the claim fails already there.     *)
(***************************************************************************)
C22_PaidOffRow ==
  \A j \in 1..Len(amortizationSchedule) :
    (Le[Zero, AnnualRate]
       /\ amortizationSchedule[j].extraPaymentApplied # Null
       /\ Le[BalanceAfterExtras(j), Epsilon])
    => /\ amortizationSchedule[j].interestPayment = Zero
       /\ amortizationSchedule[j].principalPayment = Zero
       /\ amortizationSchedule[j].monthlyPayment = Zero
       /\ amortizationSchedule[j].remainingBalance = Zero
       /\ j = Len(amortizationSchedule)

(***************************************************************************)
(* C23: every row other than the last one records monthlyPayment equal to  *)
(* the original monthly payment, computed once from the original principal *)
(* and totalMonths; extra payments never change that amount.               *)
(***************************************************************************)
C23_OriginalPayment ==
  ValidLoan
  => \A j \in 1..(Len(amortizationSchedule) - 1) :
       amortizationSchedule[j].monthlyPayment = OriginalMonthlyPayment

\* a payment was applied in the first of three rows or more
C23_Witness ==
  /\ ValidLoan /\ Gt[AnnualRate, Zero]
  /\ Len(amortizationSchedule) >= 3
  /\ amortizationSchedule[1].extraPaymentApplied # Null
  /\ amortizationSchedule[2].monthlyPayment = OriginalMonthlyPayment

(***************************************************************************)
(* C24: in every row where the loan is not yet paid off, interestPayment   *)
(* is monthlyRate times the balance left after that month's extra payments *)
(* were subtracted.                                                        *)
(***************************************************************************)
InterestOnBalanceAfterExtras ==
  \A j \in 1..Len(amortizationSchedule) :
    Gt[BalanceAfterExtras(j), Epsilon]
    => amortizationSchedule[j].interestPayment = Mul[MonthlyRate, BalanceAfterExtras(j)]

C24_InterestAnyRate == ValidLoan => InterestOnBalanceAfterExtras

\* C24, amended: for a valid loan with an annual rate >= 0, in every row where the
\* loan is not yet paid off, interestPayment is monthlyRate times the balance left
\* after that month's extra payments were subtracted.
C24_Interest == (ValidLoan /\ Le[Zero, AnnualRate]) => InterestOnBalanceAfterExtras

\* a payment applied in month 1 lowers the interest of month 1
C24_Witness ==
  /\ ValidLoan /\ Gt[AnnualRate, Zero]
  /\ Len(amortizationSchedule) >= 2
  /\ amortizationSchedule[1].extraPaymentApplied # Null
  /\ Gt[BalanceAfterExtras(1), Epsilon]
  /\ Lt[amortizationSchedule[1].interestPayment, Mul[MonthlyRate, Principal]]
  /\ amortizationSchedule[1].interestPayment = Mul[MonthlyRate, BalanceAfterExtras(1)]

(***************************************************************************)
(* C25: final-month adjustment: when the regular principal (original       *)
(* payment minus interest) exceeds the balance by more than 0.01, the row  *)
(* records principalPayment = balance, monthlyPayment = principalPayment + *)
(* interestPayment and remainingBalance = 0; otherwise it records the      *)
(* original payment and reduces the balance by the regular principal.      *)
(***************************************************************************)
FinalMonthAdjustment ==
  \A j \in 1..Len(amortizationSchedule) :
    Gt[BalanceAfterExtras(j), Epsilon]
    => IF Gt[RegularPrincipal(j), Add[BalanceAfterExtras(j), Epsilon]]
       THEN /\ amortizationSchedule[j].principalPayment = BalanceAfterExtras(j)
            /\ amortizationSchedule[j].monthlyPayment
                 = Add[amortizationSchedule[j].principalPayment,
                       amortizationSchedule[j].interestPayment]
            /\ amortizationSchedule[j].remainingBalance = Zero
       ELSE /\ amortizationSchedule[j].monthlyPayment = OriginalMonthlyPayment
            /\ amortizationSchedule[j].remainingBalance
                 = Sub[BalanceAfterExtras(j), RegularPrincipal(j)]

C25_AdjustmentAnyRate == ValidLoan => FinalMonthAdjustment

\* C25, amended: for a valid loan with an annual rate >= 0, when the regular
\* principal exceeds the balance by more than 0.01 the row records
\* principalPayment = balance, monthlyPayment = principalPayment +
\* interestPayment and remainingBalance = 0; otherwise it records the original
\* payment and reduces the balance by the regular principal.
C25_Adjustment == (ValidLoan /\ Le[Zero, AnnualRate]) => FinalMonthAdjustment

\* a last row adjusted after a payment left less than one regular principal
C25_Witness ==
  /\ ValidLoan /\ Gt[AnnualRate, Zero]
  /\ Len(amortizationSchedule) >= 2
  /\ Gt[BalanceAfterExtras(Len(amortizationSchedule)), Epsilon]
  /\ Gt[RegularPrincipal(Len(amortizationSchedule)),
        Add[BalanceAfterExtras(Len(amortizationSchedule)), Epsilon]]
  /\ Lt[LastRow.monthlyPayment, OriginalMonthlyPayment]
  /\ LastRow.remainingBalance = Zero

(***************************************************************************)
(* C26: with no extra payments and any accepted loan (positive, zero or    *)
(* negative rate) totalInterestSaved is 0: the interest the engine         *)
(* accumulates equals the total interest of the baseline calculator.       *)
(***************************************************************************)
C26_NothingSavedWithoutExtras ==
  (ValidLoan /\ extraPayments = << >>)
  => /\ totalInterestSaved = Zero
     /\ SumOver(amortizationSchedule, "interestPayment") = BaselineInterest

(***************************************************************************)
(* C27: row accounting identity: for every row i, remainingBalance(i) =    *)
(* remainingBalance(i-1) - extraPaymentApplied(i) - principalPayment(i),   *)
(* with remainingBalance(0) = principal and a null extraPaymentApplied     *)
(* read as 0.  Stated for the loans at a rate >= 0: the claim fails        *)
(* already there.                                                          *)
(***************************************************************************)
C27_RowAccounting ==
  (ValidLoan /\ Le[Zero, AnnualRate])
  => \A j \in 1..Len(amortizationSchedule) :
       amortizationSchedule[j].remainingBalance
         = Sub[Sub[BalanceBefore(j), AppliedOrZero(j)],
               amortizationSchedule[j].principalPayment]

(***************************************************************************)
(* C28: in every reachable state every stored extra payment has amount > 0 *)
(* and 1 <= month <= 2 * totalMonths + 1 for the current term value and    *)
(* unit, also after the term or the unit was changed with payments stored. *)
(* Stated for the states whose term field holds a number: the claim fails  *)
(* already there.                                                          *)
(***************************************************************************)
C28_StoredWithinCurrentBound ==
  ~IsNaN(Months)
  => \A k \in 1..Len(extraPayments) :
       /\ Gt[extraPayments[k].amount, Zero]
       /\ Le[One, extraPayments[k].month]
       /\ Le[extraPayments[k].month, ExtraMonthBound(Months)]

(***************************************************************************)
(* C29: the two engine variants agree when there are no extra payments:    *)
(* for every valid loan the engine with extra payments, run with an empty  *)
(* payment set, produces the same rows (month, monthlyPayment,             *)
(* principalPayment, interestPayment, remainingBalance) as the basic       *)
(* engine.  Stated for the loans at a rate >= 0: the claim fails already   *)
(* there.                                                                  *)
(***************************************************************************)
RowOfBasicFields(row) ==
  [month |-> row.month,
   monthlyPayment |-> row.monthlyPayment,
   principalPayment |-> row.principalPayment,
   interestPayment |-> row.interestPayment,
   remainingBalance |-> row.remainingBalance]

RowsOfBasicFields(schedule) ==
  [j \in 1..Len(schedule) |-> RowOfBasicFields(schedule[j])]

C29_VariantsAgree ==
  (ValidLoan /\ Le[Zero, AnnualRate] /\ extraPayments = << >>)
  => RowsOfBasicFields(amortizationSchedule) = RowsOfBasicFields(BasicSchedule)

(***************************************************************************)
(* C30: whenever the schedule is not empty the displayed monthly payment,  *)
(* the monthlyPayment of the first row, is the original fixed monthly      *)
(* payment of the loan, for every set of extra payments, those of month 1  *)
(* included.                                                               *)
(***************************************************************************)
FirstPaymentIsOriginal ==
  FirstPaymentOrZero(amortizationSchedule) = OriginalMonthlyPayment

C30_FirstPaymentAnySchedule ==
  (ValidLoan /\ amortizationSchedule # << >>) => FirstPaymentIsOriginal

\* C30, amended: whenever the schedule has at least two rows the displayed monthly
\* payment, the monthlyPayment of the first row, is the original fixed monthly
\* payment of the loan, for every set of extra payments, those of month 1 included.
C30_FirstPayment ==
  (ValidLoan /\ Len(amortizationSchedule) >= 2) => FirstPaymentIsOriginal

\* a payment applied in month 1 that leaves the loan running
C30_Witness ==
  /\ ValidLoan /\ Gt[AnnualRate, Zero]
  /\ Len(amortizationSchedule) >= 2
  /\ amortizationSchedule[1].extraPaymentApplied # Null
  /\ Lt[LastRow.monthlyPayment, OriginalMonthlyPayment]
  /\ FirstPaymentIsOriginal

====
